---- MODULE Spec2Model ----
(***************************************************************************)
(* Model of backends/arm/arm_backend.py: the Arm partitioner, the TOSA     *)
(* lowering loop of ArmBackend.preprocess and the Vela packaging of        *)
(* vela_compile.                                                           *)
(*                                                                         *)
(* Bytes are integers 0..255, byte strings are sequences of bytes, text    *)
(* strings that get encoded are sequences of code points.                  *)
(***************************************************************************)
EXTENDS Integers, Sequences, FiniteSets, TLC

VARIABLES
    path,          \* preprocess: debug_tosa_path value, "None" when absent
    debug_output,  \* preprocess: debug_output flag
    nodes,         \* edge_program.graph.nodes visited so far
    tosa_fb,       \* the ts.TosaSerializer being built
    pc,            \* position inside preprocess / vela_compile
    error,         \* the exception that left preprocess, "None" if none
    fs,            \* file system: temporary directory, staged file, debug directory
    vela_runs,     \* number of subprocess.run invocations of vela
    vela_rc,       \* exit status of the last vela run (-1 before any run)
    loaded,        \* whether np.load has opened the archive
    archive,       \* the npz archive vela wrote (sequence of entries)
    ki,            \* number of archive keys the packaging loop has consumed
    block_name,    \* vela_compile local
    block_length,  \* vela_compile local
    block_data,    \* vela_compile local
    blocks,        \* vela_compile local
    binary,        \* value returned by vela_compile ("None" before)
    result,        \* PreprocessResult.processed_bytes ("None" before)
    partitioner,   \* ArmPartitioner.partition: graph, proposed partitions, tags
    order_arg      \* new_order argument of the call under test (<<>> before)

vars == <<path, debug_output, nodes, tosa_fb, pc, error, fs, vela_runs, vela_rc,
          loaded, archive, ki, block_name, block_length, block_data, blocks,
          binary, result, partitioner, order_arg>>

lowerVars == <<path, debug_output, nodes, tosa_fb>>
blockLocals == <<ki, block_name, block_length, block_data, blocks>>

(***************************************************************************)
(* Bounds of the model.                                                    *)
(***************************************************************************)
MaxKeyLen == 16
MaxDataLen == 33
MaxScratch == 33
MaxBlocks == 2
MaxNodes == 3
MaxGraph == 4
MaxRank == 3

(***************************************************************************)
(* Byte-level helpers: Python's bytes(), int.to_bytes(), b'\x00'*n.        *)
(***************************************************************************)
RECURSIVE Flatten(_)
Flatten(ss) == IF ss = <<>> THEN <<>> ELSE Head(ss) \o Flatten(Tail(ss))

\* utf-8 encoding of one code point below 0x800
Utf8Char(cp) == IF cp < 128 THEN <<cp>>
                ELSE <<192 + (cp \div 64), 128 + (cp % 64)>>

\* bytes(s, "utf8")
Utf8(s) == Flatten([i \in 1..Len(s) |-> Utf8Char(s[i])])

\* b'\x00' * n   (a non-positive count gives the empty byte string)
Zeros(n) == [i \in 1..(IF n > 0 THEN n ELSE 0) |-> 0]

\* seq[:n]
Take(s, n) == SubSeq(s, 1, IF Len(s) < n THEN Len(s) ELSE n)

\* n.to_bytes(w, 'little') for n >= 0
RECURSIVE ToBytesLE(_, _)
ToBytesLE(n, w) == IF w = 0 THEN <<>> ELSE <<n % 256>> \o ToBytesLE(n \div 256, w - 1)

\* ndarray.tobytes(): uint8 items are single bytes, int32 items four bytes
ToBytes(arr) == IF arr.dtype = "uint8" THEN arr.vals
                ELSE Flatten([i \in 1..Len(arr.vals) |-> ToBytesLE(arr.vals[i], 4)])

\* the text constants of vela_compile, as code points
ScratchShapeKey == <<115, 99, 114, 97, 116, 99, 104, 95, 115, 104, 97, 112, 101>>
ScratchDataKey == <<115, 99, 114, 97, 116, 99, 104, 95, 100, 97, 116, 97>>
HeaderText == <<118, 101, 108, 97, 95, 98, 105, 110, 95, 115, 116, 114, 101, 97, 109>>
FooterText == <<118, 101, 108, 97, 95, 101, 110, 100, 95, 115, 116, 114, 101, 97, 109>>

(***************************************************************************)
(* The per-block encoding of vela_compile.                                 *)
(***************************************************************************)
\* lines 170-171 and 183-184
BlockName(key) == Take(Utf8(key), 15) \o Zeros(16 - Len(Take(Utf8(key), 15)))

\* line 174
BlockLengthWrong(data) == ToBytesLE(Len(data) + (16 - (Len(data) % 16)), 16)
BlockLength(data) == ToBytesLE(Len(data), 16)

\* line 176
BlockData(data) == data \o Zeros(16 - (Len(data) % 16))

\* line 187
ScratchLengthWrong(n) == n + (16 - (n % 16))
ScratchLength(n) == n + (15 - ((n - 1) % 16))

\* lines 178-179 and 191-192
AppendBlockFront(blks, name, length, data) == name \o length \o data \o blks
AppendBlock(blks, name, length, data) == blks \o (name \o length \o data)

\* lines 199-200
Header == Utf8(HeaderText) \o <<0>>
Footer == Utf8(FooterText) \o <<0>>

(***************************************************************************)
(* Archives the external compiler can leave behind.                        *)
(***************************************************************************)
Entry(key, arr) == [key |-> key, arr |-> arr]

\* a key of n characters; the "wide" style has two-byte characters
KeyOf(n, style) == [i \in 1..n |-> IF style = "wide" /\ i % 2 = 0 THEN 233 ELSE 96 + i]

\* a uint8 array of n items
DataOf(n) == [dtype |-> "uint8", vals |-> [i \in 1..n |-> ((i * 7) % 255) + 1]]

ScratchEntry(s) == Entry(ScratchShapeKey, [dtype |-> "int32", vals |-> <<s>>])

\* one region of every key and data length, followed by scratch_shape
ArchivesOne ==
    { <<Entry(KeyOf(n, st), DataOf(l)), ScratchEntry(s)>> :
        n \in 0..MaxKeyLen, st \in {"ascii", "wide"}, l \in 0..MaxDataLen,
        s \in 0..MaxScratch }

\* region j of an archive: its key length tells the regions apart
RegionMenu(j) == { Entry(KeyOf(n, "ascii"), DataOf(l)) : n \in {j, 13 + j}, l \in {0, 3, 16, 20} }

RECURSIVE RegionSeqs(_)
RegionSeqs(n) ==
    IF n = 0 THEN { <<>> }
    ELSE { Append(s, e) : s \in RegionSeqs(n - 1), e \in RegionMenu(n) }

InsertAt(s, i, e) == SubSeq(s, 1, i) \o <<e>> \o SubSeq(s, i + 1, Len(s))

\* up to MaxBlocks regions, scratch_shape anywhere among them or missing
ArchivesMany ==
    UNION { { s } \cup { InsertAt(s, i, ScratchEntry(sc)) : i \in 0..Len(s), sc \in {0, 10, 16} } :
            s \in UNION { RegionSeqs(n) : n \in 0..MaxBlocks } }

\* the packaging example of the specification, and an archive without scratch_shape
ArchivesFew ==
    { <<Entry(KeyOf(1, "ascii"), DataOf(3)), Entry(KeyOf(2, "ascii"), DataOf(20)), ScratchEntry(10)>>,
      <<Entry(KeyOf(1, "ascii"), DataOf(3))>> }

HasKey(ar, key) == \E i \in 1..Len(ar) : ar[i].key = key
Lookup(ar, key) == ar[CHOOSE i \in 1..Len(ar) : ar[i].key = key]

(***************************************************************************)
(* The IR module under construction (ts.TosaSerializer).                   *)
(***************************************************************************)
EmptyFb == [tensors |-> <<>>, operators |-> <<>>, inputs |-> <<>>, outputs |-> <<>>,
            currLayerResultId |-> 0, currInputId |-> 0]

\* tensor names: graph nodes, serializer-generated intermediates and constants
NodeName(i) == [pre |-> "node", id |-> i]
LayerName(i) == [pre |-> "layer", id |-> i]
ConstName(i) == [pre |-> "const", id |-> i]
NoName == [pre |-> "None", id |-> 0]

DeclaredNames(fb) == { fb.tensors[i].name : i \in 1..Len(fb.tensors) }

\* currBasicBlock.addTensor
AddTensor(fb, name, shape, dtype) ==
    [fb EXCEPT !.tensors = Append(@, [name |-> name, shape |-> shape, dtype |-> dtype])]

\* addOperator; `declared` records how many tensors were declared when the
\* instruction was appended
AddOperator(fb, op, ins, outs, attr) ==
    [fb EXCEPT !.operators = Append(@, [op |-> op, inputs |-> ins, outputs |-> outs,
                                        attr |-> attr, declared |-> Len(fb.tensors)])]

\* addIntermediate: declares the tensor layer-<currLayerResultId>
AddIntermediate(fb, shape, dtype) ==
    [AddTensor(fb, LayerName(fb.currLayerResultId), shape, dtype)
        EXCEPT !.currLayerResultId = @ + 1]

\* addConst: declares the tensor and appends the CONST instruction producing it
AddConst(fb, shape, dtype, name) ==
    LET nm == IF name = NoName THEN ConstName(fb.currInputId) ELSE name
        f1 == AddTensor(fb, nm, shape, dtype)
        f2 == IF name = NoName THEN [f1 EXCEPT !.currInputId = @ + 1] ELSE f1
    IN AddOperator(f2, "CONST", <<>>, <<nm>>, [kind |-> "None"])

\* addInputTensor
AddInputTensor(fb, name, shape, dtype) ==
    LET f1 == AddTensor(fb, name, shape, dtype)
    IN [f1 EXCEPT !.inputs = Append(@, [name |-> name, declared |-> Len(f1.tensors)])]

\* addOutputTensor
AddOutputTensor(fb, name) ==
    [fb EXCEPT !.outputs = Append(@, [name |-> name, declared |-> Len(fb.tensors)])]

(***************************************************************************)
(* Graph nodes and their operands.                                         *)
(***************************************************************************)
\* operands of a node: another node, a number or a list of integers
TensorArg(n) == [kind |-> "node", name |-> n.name, shape |-> n.shape, dtype |-> n.dtype,
                 number |-> 0, special |-> <<>>]
NumberArg(x) == [kind |-> "number", name |-> NoName, shape |-> <<>>, dtype |-> "None",
                 number |-> x, special |-> <<>>]
ListArg(l) == [kind |-> "list", name |-> NoName, shape |-> <<>>, dtype |-> "None",
               number |-> 0, special |-> l]

\* tosa_mapping.TosaArg: the name, shape and element type of a node operand, the
\* value of a literal operand
TosaArg(arg) == [name |-> arg.name, shape |-> arg.shape, dtype |-> arg.dtype,
                 number |-> arg.number, special |-> arg.special]

\* tosa_mapping.op: the 1:1 operator table
op_of(target) == IF target = "aten.add.Tensor" THEN "ADD" ELSE "None"

\* attr_torch_to_tosa
attr_torch_to_tosa(op) ==
    IF op = "MATMUL" THEN [kind |-> "MatMul"]
    ELSE IF op = "MUL" THEN [kind |-> "Mul"]
    ELSE [kind |-> "None"]

\* TOSASupportedOperators.is_node_supported
SupportedTargetsNoGetitem ==
    { "aten.add.Tensor", "aten.addmm.default", "aten.permute_copy.default",
      "aten.hardtanh.default", "aten.convolution.default", "aten.div.Tensor",
      "aten._native_batch_norm_legit_no_training.default", "aten.avg_pool2d.default",
      "aten._softmax.default" }
SupportedTargets ==
    { "aten.add.Tensor", "aten.addmm.default", "aten.permute_copy.default",
      "aten.hardtanh.default", "aten.convolution.default", "aten.div.Tensor",
      "aten._native_batch_norm_legit_no_training.default", "aten.avg_pool2d.default",
      "aten._softmax.default", "operator.getitem" }

is_node_supported(node) == node.op = "call_function" /\ node.target \in SupportedTargets

(***************************************************************************)
(* ArmPartitioner.partition.  The graph is a sequence of nodes, a node is  *)
(* known by its position.  delegation_tag[i] is node i's                   *)
(* meta["delegation_tag"], NoTag while the key is absent.                  *)
(***************************************************************************)
NoTag == [pre |-> "None", id |-> 0]

\* line 116: f"tag{partition.id}"
TagOfConstant(id) == [pre |-> "tag", id |-> 0]
TagOf(id) == [pre |-> "tag", id |-> id]

IdlePartitioner ==
    [pc |-> "idle", graph |-> <<>>, partition_list |-> <<>>, pi |-> 1, visited |-> {},
     delegation_tag |-> <<>>, partition_tags |-> {}]

\* the kinds of node of an exported graph
GraphNodes ==
    { [op |-> "call_function", target |-> t] :
        t \in {"aten.add.Tensor", "operator.getitem", "aten.sub.Tensor"} }
    \cup { [op |-> "placeholder", target |-> "x"], [op |-> "output", target |-> "output"] }

Graphs == UNION { [1..n -> GraphNodes] : n \in 1..MaxGraph }

Supported(g) == { i \in 1..Len(g) : is_node_supported(g[i]) }

\* CapabilityBasedPartitioner.propose_partitions, by its contract: the accepted
\* nodes split into non-empty disjoint partitions with distinct ids
ProposePartitions(g) ==
    UNION { { [k \in 1..m |-> [id |-> base + k - 1, nodes |-> { i \in Supported(g) : f[i] = k }]] :
                f \in { h \in [Supported(g) -> 1..m] : \A k \in 1..m : \E i \in Supported(g) : h[i] = k } } :
            m \in 0..Cardinality(Supported(g)), base \in {0, 1} }

\* lines 106-113
PartitionStart ==
    /\ partitioner.pc = "idle"
    /\ \E g \in Graphs :
       \E pl \in ProposePartitions(g) :
          partitioner' = [pc |-> "tagging", graph |-> g, partition_list |-> pl, pi |-> 1,
                          visited |-> {}, delegation_tag |-> [i \in 1..Len(g) |-> NoTag],
                          partition_tags |-> {}]
    /\ UNCHANGED <<lowerVars, order_arg, pc, error, fs, vela_runs, vela_rc, loaded, archive,
                   blockLocals, binary, result>>

\* lines 114-118: one iteration of the inner loop; partition_tags is the set of
\* keys of the dictionary (every value is self.delegation_spec)
PartitionTagNode ==
    /\ partitioner.pc = "tagging"
    /\ partitioner.pi <= Len(partitioner.partition_list)
    /\ LET partition == partitioner.partition_list[partitioner.pi]
       IN \E node \in partition.nodes \ partitioner.visited :
            LET tag == TagOf(partition.id)
                last == partitioner.visited \cup {node} = partition.nodes
            IN partitioner' =
                 [partitioner EXCEPT !.delegation_tag[node] = tag,
                                     !.partition_tags = @ \cup {tag},
                                     !.visited = IF last THEN {} ELSE @ \cup {node},
                                     !.pi = IF last THEN @ + 1 ELSE @]
    /\ UNCHANGED <<lowerVars, order_arg, pc, error, fs, vela_runs, vela_rc, loaded, archive,
                   blockLocals, binary, result>>

\* lines 120-122
PartitionReturn ==
    /\ partitioner.pc = "tagging"
    /\ partitioner.pi > Len(partitioner.partition_list)
    /\ partitioner' = [partitioner EXCEPT !.pc = "done"]
    /\ UNCHANGED <<lowerVars, order_arg, pc, error, fs, vela_runs, vela_rc, loaded, archive,
                   blockLocals, binary, result>>

(***************************************************************************)
(* Lowering helpers.  A lowering in progress is [fb, err, res]: the module *)
(* so far, the exception raised ("None" while none) and the tensor the     *)
(* last helper returned.                                                   *)
(***************************************************************************)
RECURSIVE Prod(_)
Prod(shape) == IF shape = <<>> THEN 1 ELSE Head(shape) * Prod(Tail(shape))

\* Python's seq[i]: 0-based, negative indices count from the end
InRange(s, i) == -Len(s) <= i /\ i < Len(s)
PyIndex(s, i) == IF i >= 0 THEN s[i + 1] ELSE s[Len(s) + i + 1]

NoDuplicates(s) == \A i, j \in 1..Len(s) : s[i] = s[j] => i = j

Ok(fb) == [fb |-> fb, err |-> "None", res |-> [name |-> NoName, shape |-> <<>>, dtype |-> "None"]]
Fail(b, kind) == [b EXCEPT !.err = kind]
LastTensor(fb) == fb.tensors[Len(fb.tensors)]

\* b, then declare an intermediate and return it
ThenIntermediate(b, shape, dtype) ==
    IF b.err # "None" THEN b
    ELSE LET f == AddIntermediate(b.fb, shape, dtype)
         IN [b EXCEPT !.fb = f, !.res = LastTensor(f)]

\* b, then declare an unnamed constant and return it
ThenConst(b, shape, dtype) ==
    IF b.err # "None" THEN b
    ELSE LET f == AddConst(b.fb, shape, dtype, NoName)
         IN [b EXCEPT !.fb = f, !.res = LastTensor(f)]

\* b, then append an instruction
ThenOperator(b, op, ins, outs, attr) ==
    IF b.err # "None" THEN b
    ELSE [b EXCEPT !.fb = AddOperator(b.fb, op, ins, outs, attr)]

\* b, then raise kind unless cond
ThenCheck(b, cond, kind) ==
    IF b.err # "None" THEN b
    ELSE IF cond THEN b ELSE Fail(b, kind)

\* promote_shape
promote_shape(b, arg, promoted_shape, out_dtype) ==
    LET b1 == ThenCheck(b, Prod(arg.shape) = Prod(promoted_shape), "AssertionError")
        b2 == ThenIntermediate(b1, promoted_shape, out_dtype)
    IN ThenOperator(b2, "RESHAPE", <<arg.name>>, <<b2.res.name>>,
                    [kind |-> "Reshape", shape |-> promoted_shape])

\* transpose_helper
transpose_helper(b, input, new_order, out_dtype) ==
    LET b1 == ThenCheck(b, Len(input.shape) = Len(new_order), "AssertionError")
        b2 == ThenCheck(b1, NoDuplicates(new_order), "AssertionError")
        b3 == ThenCheck(b2, \A k \in 1..Len(new_order) : InRange(input.shape, new_order[k]),
                        "IndexError")
        b4 == ThenIntermediate(b3,
                  [k \in 1..Len(new_order) |-> PyIndex(input.shape, new_order[k])], out_dtype)
    IN ThenOperator(b4, "TRANSPOSE", <<input.name>>, <<b4.res.name>>,
                    [kind |-> "Transpose", perm |-> new_order])

(***************************************************************************)
(* The lowering rules of ArmBackend.preprocess.  Float literals are        *)
(* carried in tenths (0.1 is 1, 6.0 is 60); integer literals as they are.  *)
(***************************************************************************)
\* int(x) of a float literal carried in tenths: truncation towards zero
PyInt(t) == IF t >= 0 THEN t \div 10 ELSE -((-t) \div 10)

NoAttr == [kind |-> "None"]

\* lines 289-296: a 1:1 operator taking two tensor arguments
LowerBinary(b, op, inputs, outp) ==
    LET b1 == ThenCheck(b, Len(inputs) = 2, "AssertionError")
        b2 == ThenCheck(b1, inputs[1].dtype = outp.dtype, "AssertionError")
        b3 == ThenCheck(b2, inputs[2].dtype = outp.dtype, "AssertionError")
    IN ThenOperator(b3, op, <<inputs[1].name, inputs[2].name>>, <<outp.name>>,
                    attr_torch_to_tosa(op))

\* lines 299-347
LowerAddmm(b, inputs, outp) ==
    LET bias == inputs[1]
        input == inputs[2]
        weight == inputs[3]
        b1 == promote_shape(b, input, <<1>> \o input.shape, outp.dtype)
        b2 == promote_shape(b1, weight, <<1>> \o weight.shape, outp.dtype)
        b3 == promote_shape(b2, bias, <<1, 1>> \o bias.shape, outp.dtype)
        b4 == ThenCheck(b3, Len(input.shape) >= 1 /\ Len(weight.shape) >= 2, "IndexError")
        mm_shape == <<1, input.shape[1], weight.shape[2]>>
        b5 == ThenIntermediate(b4, mm_shape, outp.dtype)
        b6 == ThenOperator(b5, "MATMUL", <<b1.res.name, b2.res.name>>, <<b5.res.name>>,
                           attr_torch_to_tosa("MATMUL"))
        b7 == ThenIntermediate(b6, mm_shape, outp.dtype)
        b8 == ThenOperator(b7, "ADD", <<b3.res.name, b5.res.name>>, <<b7.res.name>>, NoAttr)
    IN ThenOperator(b8, "RESHAPE", <<b7.res.name>>, <<outp.name>>,
                    [kind |-> "Reshape", shape |-> outp.shape])

\* lines 348-353
LowerPermute(b, inputs, outp) ==
    ThenOperator(b, "TRANSPOSE", <<inputs[1].name>>, <<outp.name>>,
                 [kind |-> "Transpose", perm |-> inputs[2].special])

\* lines 354-365
LowerHardtanh(b, inputs, outp) ==
    ThenOperator(b, "CLAMP", <<inputs[1].name>>, <<outp.name>>,
                 [kind |-> "Clamp", min_int |-> PyInt(inputs[2].number),
                  max_int |-> PyInt(inputs[3].number),
                  min_fp |-> inputs[2].number, max_fp |-> inputs[3].number])

\* line 378: every padding value twice
RECURSIVE Twice(_)
Twice(l) == IF l = <<>> THEN <<>> ELSE <<Head(l), Head(l)>> \o Twice(Tail(l))

\* lines 366-445
LowerConvolutionNoReturn(b, inputs, outp) ==
    LET input == inputs[1]
        weight == inputs[2]
        bias == inputs[3]
        stride == inputs[4]
        pad == inputs[5]
        dilation == inputs[6]
        group == inputs[9]
        NHWC_Order == <<0, 2, 3, 1>>
        b1 == transpose_helper(b, input, NHWC_Order, outp.dtype)
        attr == [kind |-> "Conv", pad |-> Twice(pad.special), stride |-> stride.special,
                 dilation |-> dilation.special]
        depthwise == group.number > 1
        weight_Order == IF depthwise THEN <<2, 3, 0, 1>> ELSE <<0, 2, 3, 1>>
        b2 == transpose_helper(b1, weight, weight_Order, outp.dtype)
        NHWO_Order == <<0, 2, 3, 1>>
        b3 == ThenCheck(b2, \A k \in 1..4 : InRange(outp.shape, NHWO_Order[k]), "IndexError")
        b4 == ThenIntermediate(b3, [k \in 1..4 |-> PyIndex(outp.shape, NHWO_Order[k])],
                               outp.dtype)
        b5 == ThenOperator(b4, IF depthwise THEN "DEPTHWISE_CONV2D" ELSE "CONV2D",
                           <<b1.res.name, b2.res.name, bias.name>>, <<b4.res.name>>, attr)
        NOHW_Order == <<0, 2, 3, 1>>
    IN ThenOperator(b5, "TRANSPOSE", <<b4.res.name>>, <<outp.name>>,
                    [kind |-> "Transpose", perm |-> NOHW_Order])
LowerConvolution(b, inputs, outp) ==
    LET input == inputs[1]
        weight == inputs[2]
        bias == inputs[3]
        stride == inputs[4]
        pad == inputs[5]
        dilation == inputs[6]
        group == inputs[9]
        NHWC_Order == <<0, 2, 3, 1>>
        b1 == transpose_helper(b, input, NHWC_Order, outp.dtype)
        attr == [kind |-> "Conv", pad |-> Twice(pad.special), stride |-> stride.special,
                 dilation |-> dilation.special]
        depthwise == group.number > 1
        weight_Order == IF depthwise THEN <<2, 3, 0, 1>> ELSE <<0, 2, 3, 1>>
        b2 == transpose_helper(b1, weight, weight_Order, outp.dtype)
        NHWO_Order == <<0, 2, 3, 1>>
        b3 == ThenCheck(b2, \A k \in 1..4 : InRange(outp.shape, NHWO_Order[k]), "IndexError")
        b4 == ThenIntermediate(b3, [k \in 1..4 |-> PyIndex(outp.shape, NHWO_Order[k])],
                               outp.dtype)
        b5 == ThenOperator(b4, IF depthwise THEN "DEPTHWISE_CONV2D" ELSE "CONV2D",
                           <<b1.res.name, b2.res.name, bias.name>>, <<b4.res.name>>, attr)
        NOHW_Order == <<0, 3, 1, 2>>
    IN ThenOperator(b5, "TRANSPOSE", <<b4.res.name>>, <<outp.name>>,
                    [kind |-> "Transpose", perm |-> NOHW_Order])

\* lines 446-462
LowerDivForwardRef(b, inputs, outp) ==
    LET b1 == ThenOperator(b, "RECIPROCAL", <<inputs[2].name>>,
                           <<LayerName(b.fb.currLayerResultId)>>, NoAttr)
        b2 == ThenIntermediate(b1, inputs[2].shape, inputs[2].dtype)
    IN ThenOperator(b2, "MUL", <<inputs[1].name, b2.res.name>>, <<outp.name>>,
                    [kind |-> "Mul"])
LowerDiv(b, inputs, outp) ==
    LET b1 == ThenIntermediate(b, inputs[2].shape, inputs[2].dtype)
        b2 == ThenOperator(b1, "RECIPROCAL", <<inputs[2].name>>, <<b1.res.name>>, NoAttr)
    IN ThenOperator(b2, "MUL", <<inputs[1].name, b1.res.name>>, <<outp.name>>,
                    [kind |-> "Mul"])

\* lines 463-546
LowerBatchNorm(b, inputs, outp) ==
    LET activations == inputs[1]
        running_mean == inputs[4]
        running_var == inputs[5]
        momentum == inputs[6]
        epsilon == inputs[7]
        input_dtype == activations.dtype
        input_shape == activations.shape
        b0 == ThenCheck(b, momentum.number = 1, "AssertionError")
        b1 == promote_shape(b0, running_mean, <<1>> \o running_mean.shape \o <<1, 1>>,
                            input_dtype)
        b2 == ThenIntermediate(b1, input_shape, input_dtype)
        b3 == ThenOperator(b2, "SUB", <<activations.name, b1.res.name>>, <<b2.res.name>>,
                           NoAttr)
        b4 == ThenConst(b3, <<1>>, input_dtype)
        b5 == ThenIntermediate(b4, running_var.shape, input_dtype)
        b6 == ThenOperator(b5, "ADD", <<running_var.name, b4.res.name>>, <<b5.res.name>>,
                           NoAttr)
        b7 == ThenIntermediate(b6, running_var.shape, input_dtype)
        b8 == ThenOperator(b7, "RSQRT", <<b5.res.name>>, <<b7.res.name>>, NoAttr)
        b9 == promote_shape(b8, b7.res, <<1>> \o running_var.shape \o <<1, 1>>, input_dtype)
    IN ThenOperator(b9, "MUL", <<b2.res.name, b9.res.name>>, <<outp.name>>,
                    attr_torch_to_tosa("MUL"))

\* lines 547-593
LowerAvgPool2d(b, inputs, outp) ==
    LET input_tensor == inputs[1]
        pad_size_list == IF Len(inputs) >= 4 THEN inputs[4].special ELSE <<0, 0, 0, 0>>
        attr == [kind |-> "Pool", kernel |-> inputs[2].special, stride |-> inputs[3].special,
                 pad |-> pad_size_list, accum_dtype |-> 8]
        NHWC_Order == <<0, 2, 3, 1>>
        b1 == transpose_helper(b, input_tensor, NHWC_Order, outp.dtype)
        b2 == ThenCheck(b1, \A k \in 1..4 : InRange(outp.shape, NHWC_Order[k]), "IndexError")
        b3 == ThenIntermediate(b2, [k \in 1..4 |-> PyIndex(outp.shape, NHWC_Order[k])],
                               outp.dtype)
        b4 == ThenOperator(b3, "AVG_POOL2D", <<b1.res.name>>, <<b3.res.name>>, attr)
        NCHW_Order == <<0, 3, 1, 2>>
    IN ThenOperator(b4, "TRANSPOSE", <<b3.res.name>>, <<outp.name>>,
                    [kind |-> "Transpose", perm |-> NCHW_Order])

\* lines 594-666
LowerSoftmaxFive(b, inputs, outp) ==
    LET input_name == inputs[1].name
        input_shape == inputs[1].shape
        dim_value == inputs[2].number
        attr_axis == [kind |-> "Axis", axis |-> dim_value]
        b0 == ThenCheck(b, InRange(input_shape, dim_value), "IndexError")
        at == IF dim_value >= 0 THEN dim_value + 1 ELSE Len(input_shape) + dim_value + 1
        reduced_shape == [input_shape EXCEPT ![at] = 1]
        b1 == ThenIntermediate(b0, reduced_shape, outp.dtype)
        b2 == ThenOperator(b1, "REDUCE_MAX", <<input_name>>, <<b1.res.name>>, attr_axis)
        b3 == ThenIntermediate(b2, input_shape, outp.dtype)
        b4 == ThenOperator(b3, "SUB", <<input_name, b1.res.name>>, <<b3.res.name>>, NoAttr)
        b5 == ThenIntermediate(b4, input_shape, outp.dtype)
        b6 == ThenOperator(b5, "EXP", <<b3.res.name>>, <<b5.res.name>>, NoAttr)
        b7 == ThenIntermediate(b6, reduced_shape, outp.dtype)
        b8 == ThenOperator(b7, "REDUCE_SUM", <<b5.res.name>>, <<b7.res.name>>, attr_axis)
    IN ThenOperator(b8, "MUL", <<b5.res.name, b7.res.name>>, <<outp.name>>,
                    [kind |-> "Mul"])
LowerSoftmaxRawExp(b, inputs, outp) ==
    LET input_name == inputs[1].name
        input_shape == inputs[1].shape
        dim_value == inputs[2].number
        attr_axis == [kind |-> "Axis", axis |-> dim_value]
        b0 == ThenCheck(b, InRange(input_shape, dim_value), "IndexError")
        at == IF dim_value >= 0 THEN dim_value + 1 ELSE Len(input_shape) + dim_value + 1
        reduced_shape == [input_shape EXCEPT ![at] = 1]
        b1 == ThenIntermediate(b0, reduced_shape, outp.dtype)
        b2 == ThenOperator(b1, "REDUCE_MAX", <<input_name>>, <<b1.res.name>>, attr_axis)
        b3 == ThenIntermediate(b2, input_shape, outp.dtype)
        b4 == ThenOperator(b3, "SUB", <<input_name, b1.res.name>>, <<b3.res.name>>, NoAttr)
        b5 == ThenIntermediate(b4, input_shape, outp.dtype)
        b6 == ThenOperator(b5, "EXP", <<input_name>>, <<b5.res.name>>, NoAttr)
        b7 == ThenIntermediate(b6, reduced_shape, outp.dtype)
        b8 == ThenOperator(b7, "REDUCE_SUM", <<b5.res.name>>, <<b7.res.name>>, attr_axis)
        b9 == ThenIntermediate(b8, reduced_shape, outp.dtype)
        b10 == ThenOperator(b9, "RECIPROCAL", <<b7.res.name>>, <<b9.res.name>>, NoAttr)
    IN ThenOperator(b10, "MUL", <<b5.res.name, b9.res.name>>, <<outp.name>>,
                    [kind |-> "Mul"])
LowerSoftmax(b, inputs, outp) ==
    LET input_name == inputs[1].name
        input_shape == inputs[1].shape
        dim_value == inputs[2].number
        attr_axis == [kind |-> "Axis", axis |-> dim_value]
        b0 == ThenCheck(b, InRange(input_shape, dim_value), "IndexError")
        at == IF dim_value >= 0 THEN dim_value + 1 ELSE Len(input_shape) + dim_value + 1
        reduced_shape == [input_shape EXCEPT ![at] = 1]
        b1 == ThenIntermediate(b0, reduced_shape, outp.dtype)
        b2 == ThenOperator(b1, "REDUCE_MAX", <<input_name>>, <<b1.res.name>>, attr_axis)
        b3 == ThenIntermediate(b2, input_shape, outp.dtype)
        b4 == ThenOperator(b3, "SUB", <<input_name, b1.res.name>>, <<b3.res.name>>, NoAttr)
        b5 == ThenIntermediate(b4, input_shape, outp.dtype)
        b6 == ThenOperator(b5, "EXP", <<b3.res.name>>, <<b5.res.name>>, NoAttr)
        b7 == ThenIntermediate(b6, reduced_shape, outp.dtype)
        b8 == ThenOperator(b7, "REDUCE_SUM", <<b5.res.name>>, <<b7.res.name>>, attr_axis)
        b9 == ThenIntermediate(b8, reduced_shape, outp.dtype)
        b10 == ThenOperator(b9, "RECIPROCAL", <<b7.res.name>>, <<b9.res.name>>, NoAttr)
    IN ThenOperator(b10, "MUL", <<b5.res.name, b9.res.name>>, <<outp.name>>,
                    [kind |-> "Mul"])

\* lines 667-672
LowerGetitem(b, inputs, outp) ==
    ThenOperator(b, "IDENTITY", <<inputs[1].name>>, <<outp.name>>, NoAttr)

\* lines 272-676: the call_function branch
LowerCallFunction(fb, node) ==
    LET inputs == [i \in 1..Len(node.args) |-> TosaArg(node.args[i])]
        outp == TosaArg(TensorArg(node))
        b == Ok(AddTensor(fb, outp.name, outp.shape, outp.dtype))
        op == op_of(node.target)
        t == node.target
    IN IF op # "None" THEN LowerBinary(b, op, inputs, outp)
       ELSE IF t = "aten.addmm.default" THEN LowerAddmm(b, inputs, outp)
       ELSE IF t = "aten.permute_copy.default" THEN LowerPermute(b, inputs, outp)
       ELSE IF t = "aten.hardtanh.default" THEN LowerHardtanh(b, inputs, outp)
       ELSE IF t = "aten.convolution.default" THEN LowerConvolution(b, inputs, outp)
       ELSE IF t = "aten.div.Tensor" THEN LowerDiv(b, inputs, outp)
       ELSE IF t = "aten._native_batch_norm_legit_no_training.default"
            THEN LowerBatchNorm(b, inputs, outp)
       ELSE IF t = "aten.avg_pool2d.default" THEN LowerAvgPool2d(b, inputs, outp)
       ELSE IF t = "aten._softmax.default" THEN LowerSoftmax(b, inputs, outp)
       ELSE IF t = "operator.getitem" THEN LowerGetitem(b, inputs, outp)
       ELSE Fail(b, "RuntimeError: Unknown operator")

\* lines 678-720: the placeholder branch
LowerPlaceholder(fb, node) ==
    LET b == Ok(fb)
        b1 == ThenCheck(b, node.name = node.target, "AssertionError")
        b2 == ThenCheck(b1, Len(node.args) = 0, "AssertionError")
    IN IF b2.err # "None" THEN b2
       ELSE IF node.pkind \in {"parameter", "buffer"}
            THEN [b2 EXCEPT !.fb = AddConst(fb, node.shape, node.dtype, node.name)]
       ELSE [b2 EXCEPT !.fb = AddInputTensor(fb, node.name, node.shape, node.dtype)]

\* lines 722-727: the output branch
RECURSIVE LowerOutputs(_, _)
LowerOutputs(b, outs) ==
    IF outs = <<>> \/ b.err # "None" THEN b
    ELSE IF Head(outs).name \in DeclaredNames(b.fb)
         THEN LowerOutputs([b EXCEPT !.fb = AddOutputTensor(b.fb, Head(outs).name)], Tail(outs))
         ELSE Fail(b, "KeyError")

(***************************************************************************)
(* Debug output.                                                           *)
(***************************************************************************)
\* dbg_tosa_dump: os.makedirs(None) raises TypeError before anything is written
dbg_tosa_dumpAnywhere(f, p) ==
    [fs |-> [f EXCEPT !.dbg_dir = TRUE, !.dbg_writes = @ + 1], err |-> "None"]
dbg_tosa_dump(f, p) ==
    IF p = "None" THEN [fs |-> f, err |-> "TypeError"]
    ELSE [fs |-> [f EXCEPT !.dbg_dir = TRUE, !.dbg_writes = @ + 1], err |-> "None"]

\* dbg_fail: dump, then raise
dbg_fail(f, p) ==
    LET d == dbg_tosa_dump(f, p)
    IN IF d.err # "None" THEN d
       ELSE [d EXCEPT !.err = "RuntimeError: TOSA Internal Error"]

(***************************************************************************)
(* The graphs handed to preprocess.  A node's tensor operands are nodes    *)
(* that precede it (the graph is in topological order); the output node is *)
(* the last node.                                                          *)
(***************************************************************************)
Node(op, i, target, args, dtype, shape, pkind) ==
    [op |-> op, name |-> NodeName(i), target |-> target, args |-> args,
     dtype |-> dtype, shape |-> shape, pkind |-> pkind]

Shape4 == <<1, 2, 2, 2>>
Shape2 == <<2, 2>>

\* the permutation that reverses the axes of a tensor of rank r
Reversed(r) == [k \in 1..r |-> r - k]

Placeholders(i) ==
    { Node("placeholder", i, NodeName(i), <<>>, d, Shape4, k) :
        d \in {"FP32", "INT32"}, k \in {"input", "parameter"} }
    \cup { Node("placeholder", i, NodeName(i), <<>>, "FP32", Shape2, "buffer") }

\* the argument lists of a call of target on the tensors a and b
ArgLists(target, a, b) ==
    IF target \in {"aten.add.Tensor", "aten.div.Tensor", "aten.sub.Tensor"}
    THEN { <<a, b>> }
    ELSE IF target = "aten.addmm.default" THEN { <<b, a, b>> }
    ELSE IF target = "aten.permute_copy.default"
         THEN { <<a, ListArg(Reversed(Len(a.shape)))>> }
    ELSE IF target = "aten.hardtanh.default" THEN { <<a, NumberArg(0), NumberArg(60)>> }
    ELSE IF target = "aten.convolution.default"
         THEN { <<a, b, b, ListArg(<<1, 1>>), ListArg(<<0, 1>>), ListArg(<<1, 1>>),
                  NumberArg(0), ListArg(<<0, 0>>), NumberArg(g)>> : g \in {1, 2} }
    ELSE IF target = "aten._native_batch_norm_legit_no_training.default"
         THEN { <<a, b, b, b, b, NumberArg(m), NumberArg(0)>> : m \in {1, 5} }
    ELSE IF target = "aten.avg_pool2d.default"
         THEN { <<a, ListArg(<<2, 2>>), ListArg(<<2, 2>>)>>,
                <<a, ListArg(<<2, 2>>), ListArg(<<2, 2>>), ListArg(<<1, 1>>)>> }
    ELSE IF target = "aten._softmax.default"
         THEN { <<a, NumberArg(d), NumberArg(0)>> : d \in {1, -1} }
    ELSE { <<a, NumberArg(0)>> }

\* a call takes the node before it as its first tensor operand and that node
\* or the first node of the graph as its other tensor operands
\* the targets a graph may call: the supported ones and one other
CallTargets(rich) ==
    IF rich
    THEN { "aten.add.Tensor", "aten.addmm.default", "aten.permute_copy.default",
           "aten.hardtanh.default", "aten.convolution.default", "aten.div.Tensor",
           "aten._native_batch_norm_legit_no_training.default", "aten.avg_pool2d.default",
           "aten._softmax.default", "operator.getitem", "aten.sub.Tensor" }
    ELSE {"aten.add.Tensor", "aten._native_batch_norm_legit_no_training.default",
          "aten.avg_pool2d.default", "aten.sub.Tensor"}

Calls(ns, rich) ==
    IF ns = <<>> THEN {}
    ELSE UNION { { Node("call_function", Len(ns) + 1, t, args, d, TensorArg(ns[Len(ns)]).shape, "None") :
                     args \in ArgLists(t, TensorArg(ns[Len(ns)]), TensorArg(ns[j])) } :
                 t \in CallTargets(rich), j \in {1, Len(ns)},
                 d \in (IF rich THEN {"FP32", "INT32"} ELSE {"FP32"}) }

Outputs(ns) ==
    IF ns = <<>> THEN {}
    ELSE { Node("output", Len(ns) + 1, "output", <<TensorArg(ns[j])>>, "None", <<>>, "None") :
             j \in {1, Len(ns)} }

OtherNodes(ns) == { Node("get_attr", Len(ns) + 1, "attr", <<>>, "None", <<>>, "None") }

\* the nodes that can follow the nodes ns: placeholders come first in a graph
NodeMenu(ns, rich) ==
    (IF Len(ns) < MaxNodes
     THEN (IF \A j \in 1..Len(ns) : ns[j].op = "placeholder"
           THEN Placeholders(Len(ns) + 1) ELSE {})
          \cup Calls(ns, rich) \cup OtherNodes(ns)
     ELSE {})
    \cup Outputs(ns)

(***************************************************************************)
(* ArmBackend.preprocess.                                                  *)
(***************************************************************************)
\* lines 259-269: the compile spec either carries debug_tosa_path or not
Start ==
    /\ pc = "start"
    /\ \E compile_spec \in { <<>>, <<[key |-> "debug_tosa_path", value |-> "dbg/"]>>,
                             <<[key |-> "other", value |-> "x"]>> } :
        LET hit == \E k \in 1..Len(compile_spec) : compile_spec[k].key = "debug_tosa_path"
        IN /\ path' = IF hit
                      THEN compile_spec[CHOOSE k \in 1..Len(compile_spec) :
                                           compile_spec[k].key = "debug_tosa_path"].value
                      ELSE "None"
           /\ debug_output' = hit
    /\ tosa_fb' = EmptyFb
    /\ pc' = "lower"
    /\ UNCHANGED <<partitioner, order_arg, nodes, error, fs, vela_runs, vela_rc, loaded, archive, blockLocals,
                   binary, result>>

\* lines 271-732: one iteration of `for node in edge_program.graph.nodes`
LowerNode(rich) ==
    /\ pc = "lower"
    /\ \E node \in NodeMenu(nodes, rich) :
        /\ nodes' = Append(nodes, node)
        /\ IF node.op \in {"call_function", "placeholder", "output"}
           THEN LET b == IF node.op = "call_function" THEN LowerCallFunction(tosa_fb, node)
                         ELSE IF node.op = "placeholder" THEN LowerPlaceholder(tosa_fb, node)
                         ELSE LowerOutputs(Ok(tosa_fb), node.args)
                IN /\ tosa_fb' = b.fb
                   /\ error' = b.err
                   /\ pc' = IF b.err # "None" THEN "raised"
                            ELSE IF node.op = "output" THEN "dump" ELSE "lower"
                   /\ UNCHANGED fs
           ELSE LET d == dbg_fail(fs, path)
                IN /\ fs' = d.fs
                   /\ error' = d.err
                   /\ pc' = "raised"
                   /\ UNCHANGED tosa_fb
    /\ UNCHANGED <<partitioner, order_arg, path, debug_output, vela_runs, vela_rc, loaded, archive, blockLocals,
                   binary, result>>

\* lines 734-735
Dump ==
    /\ pc = "dump"
    /\ IF debug_output
       THEN LET d == dbg_tosa_dump(fs, path)
            IN /\ fs' = d.fs
               /\ error' = d.err
               /\ pc' = IF d.err # "None" THEN "raised" ELSE "vela"
       ELSE /\ pc' = "vela"
            /\ UNCHANGED <<fs, error>>
    /\ UNCHANGED <<partitioner, order_arg, lowerVars, vela_runs, vela_rc, loaded, archive, blockLocals,
                   binary, result>>

(***************************************************************************)
(* vela_compile.  An exception raised inside the                           *)
(* `with tempfile.TemporaryDirectory()` block removes the directory while  *)
(* it propagates.                                                          *)
(***************************************************************************)
\* TemporaryDirectory.__exit__
CleanupLeak(f) == f
Cleanup(f) == [f EXCEPT !.tmpdir = "removed", !.out_tosa = FALSE, !.npz = FALSE]

\* subprocess.run(..., check=True) raises on a non-zero exit status
RunRaisesNever(rc) == FALSE
RunRaises(rc) == rc # 0

\* an exception leaves vela_compile and preprocess
RaiseInVela(kind) ==
    /\ pc' = "raised"
    /\ error' = kind
    /\ fs' = Cleanup(fs)

\* line 147
VelaMkdtemp ==
    /\ pc = "vela"
    /\ fs' = [fs EXCEPT !.tmpdir = "exists"]
    /\ pc' = "vela_write"
    /\ UNCHANGED <<partitioner, order_arg, lowerVars, error, vela_runs, vela_rc, loaded, archive, blockLocals,
                   binary, result>>

\* lines 150-154
VelaWrite ==
    /\ pc = "vela_write"
    /\ IF fs.tmpdir = "exists"
       THEN /\ fs' = [fs EXCEPT !.out_tosa = TRUE]
            /\ pc' = "vela_run"
            /\ UNCHANGED error
       ELSE /\ pc' = "raised"
            /\ error' = "FileNotFoundError"
            /\ UNCHANGED fs
    /\ UNCHANGED <<partitioner, order_arg, lowerVars, vela_runs, vela_rc, loaded, archive, blockLocals,
                   binary, result>>

\* lines 158-159: the external compiler exits with rc; on success it may or may
\* not have left the archive at output/out_sg0_vela.npz
VelaRun(Archives) ==
    /\ pc = "vela_run"
    /\ vela_runs' = vela_runs + 1
    /\ \E rc \in {0, 1} :
        /\ vela_rc' = rc
        /\ IF RunRaises(rc)
           THEN /\ RaiseInVela("CalledProcessError")
                /\ UNCHANGED archive
           ELSE /\ pc' = "vela_load"
                /\ UNCHANGED error
                /\ \/ /\ rc = 0
                      /\ \E ar \in Archives : archive' = ar
                      /\ fs' = [fs EXCEPT !.npz = TRUE]
                   \/ /\ UNCHANGED <<archive, fs>>
    /\ UNCHANGED <<partitioner, order_arg, lowerVars, loaded, blockLocals, binary, result>>

\* lines 161-163
VelaLoad ==
    /\ pc = "vela_load"
    /\ blocks' = <<>>
    /\ IF fs.npz
       THEN /\ loaded' = TRUE
            /\ pc' = "vela_loop"
            /\ UNCHANGED <<error, fs>>
       ELSE /\ RaiseInVela("FileNotFoundError")
            /\ UNCHANGED loaded
    /\ UNCHANGED <<partitioner, order_arg, lowerVars, vela_runs, vela_rc, archive, ki, block_name,
                   block_length, block_data, binary, result>>

\* lines 169-179: one iteration of `for key in data.keys()`
VelaLoop ==
    /\ pc = "vela_loop"
    /\ ki < Len(archive)
    /\ LET e == archive[ki + 1]
           data == ToBytes(e.arr)
       IN /\ block_name' = BlockName(e.key)
          /\ block_length' = BlockLength(data)
          /\ block_data' = BlockData(data)
          /\ blocks' = AppendBlock(blocks, block_name', block_length', block_data')
    /\ ki' = ki + 1
    /\ UNCHANGED <<partitioner, order_arg, lowerVars, pc, error, fs, vela_runs, vela_rc, loaded, archive,
                   binary, result>>

\* lines 183-192: the synthesized scratch block
VelaScratch ==
    /\ pc = "vela_loop"
    /\ ki = Len(archive)
    /\ IF HasKey(archive, ScratchShapeKey)
       THEN LET n == ScratchLength(Lookup(archive, ScratchShapeKey).arr.vals[1])
            IN /\ block_name' = BlockName(ScratchDataKey)
               /\ block_data' = Zeros(n)
               /\ block_length' = ToBytesLE(n, 16)
               /\ blocks' = AppendBlock(blocks, block_name', block_length', block_data')
               /\ pc' = "vela_return"
               /\ UNCHANGED <<error, fs>>
       ELSE /\ block_name' = BlockName(ScratchDataKey)
            /\ RaiseInVela("KeyError")
            /\ UNCHANGED <<block_length, block_data, blocks>>
    /\ UNCHANGED <<partitioner, order_arg, lowerVars, vela_runs, vela_rc, loaded, archive, ki, binary, result>>

\* lines 198-201, leaving the `with` block
VelaReturn ==
    /\ pc = "vela_return"
    /\ binary' = Header \o blocks \o Footer
    /\ fs' = Cleanup(fs)
    /\ pc' = "return"
    /\ UNCHANGED <<partitioner, order_arg, lowerVars, error, vela_runs, vela_rc, loaded, archive, blockLocals,
                   result>>

\* lines 739-741
Return ==
    /\ pc = "return"
    /\ result' = binary
    /\ pc' = "returned"
    /\ UNCHANGED <<partitioner, order_arg, lowerVars, error, fs, vela_runs, vela_rc, loaded, archive,
                   blockLocals, binary>>

(***************************************************************************)
(* Specifications of the packager alone: vela_compile is entered with an   *)
(* empty module.                                                           *)
(***************************************************************************)
InitVela ==
    /\ path = "None"
    /\ debug_output = FALSE
    /\ nodes = <<>>
    /\ tosa_fb = EmptyFb
    /\ pc = "vela"
    /\ error = "None"
    /\ fs = [tmpdir |-> "none", out_tosa |-> FALSE, npz |-> FALSE,
             dbg_dir |-> FALSE, dbg_writes |-> 0]
    /\ vela_runs = 0
    /\ vela_rc = -1
    /\ loaded = FALSE
    /\ archive = <<>>
    /\ ki = 0
    /\ block_name = <<>>
    /\ block_length = <<>>
    /\ block_data = <<>>
    /\ blocks = <<>>
    /\ binary = <<>>
    /\ result = <<>>
    /\ partitioner = IdlePartitioner
    /\ order_arg = <<>>

VelaRunOne == VelaRun(ArchivesOne)
VelaRunMany == VelaRun(ArchivesMany)

NextBlock == VelaMkdtemp \/ VelaWrite \/ VelaRunOne \/ VelaLoad \/ VelaLoop
             \/ VelaScratch \/ VelaReturn \/ Return

NextVela == VelaMkdtemp \/ VelaWrite \/ VelaRunMany \/ VelaLoad \/ VelaLoop
            \/ VelaScratch \/ VelaReturn \/ Return

\* preprocess as a whole
Init ==
    /\ path = "None"
    /\ debug_output = FALSE
    /\ nodes = <<>>
    /\ tosa_fb = EmptyFb
    /\ pc = "start"
    /\ error = "None"
    /\ fs = [tmpdir |-> "none", out_tosa |-> FALSE, npz |-> FALSE,
             dbg_dir |-> FALSE, dbg_writes |-> 0]
    /\ vela_runs = 0
    /\ vela_rc = -1
    /\ loaded = FALSE
    /\ archive = <<>>
    /\ ki = 0
    /\ block_name = <<>>
    /\ block_length = <<>>
    /\ block_data = <<>>
    /\ blocks = <<>>
    /\ binary = <<>>
    /\ result = <<>>
    /\ partitioner = IdlePartitioner
    /\ order_arg = <<>>

LowerNodeFew == LowerNode(FALSE)
LowerNodeAll == LowerNode(TRUE)
VelaRunFew == VelaRun(ArchivesFew)

Next == Start \/ LowerNodeFew \/ Dump \/ VelaMkdtemp \/ VelaWrite \/ VelaRunFew
        \/ VelaLoad \/ VelaLoop \/ VelaScratch \/ VelaReturn \/ Return

\* the lowering engine alone, over every operator family, entered with an
\* empty compile spec
InitLower ==
    /\ path = "None"
    /\ debug_output = FALSE
    /\ nodes = <<>>
    /\ tosa_fb = EmptyFb
    /\ pc = "lower"
    /\ error = "None"
    /\ fs = [tmpdir |-> "none", out_tosa |-> FALSE, npz |-> FALSE,
             dbg_dir |-> FALSE, dbg_writes |-> 0]
    /\ vela_runs = 0
    /\ vela_rc = -1
    /\ loaded = FALSE
    /\ archive = <<>>
    /\ ki = 0
    /\ block_name = <<>>
    /\ block_length = <<>>
    /\ block_data = <<>>
    /\ blocks = <<>>
    /\ binary = <<>>
    /\ result = <<>>
    /\ partitioner = IdlePartitioner
    /\ order_arg = <<>>

NextLower == LowerNodeAll

\* the partitioner alone
NextPartition == PartitionStart \/ PartitionTagNode \/ PartitionReturn

\* transpose_helper alone: it is called once on the tensor of a lowered input
\* placeholder, with every axis list up to one longer than the largest rank
Axes == -MaxRank..MaxRank
Orders == UNION { [1..n -> Axes] : n \in 0..(MaxRank + 1) }
RankShape(r) == [k \in 1..r |-> k + 1]

InitTranspose ==
    /\ path = "None"
    /\ debug_output = FALSE
    /\ \E r \in 1..MaxRank :
         LET node == Node("placeholder", 1, NodeName(1), <<>>, "FP32", RankShape(r), "input")
         IN /\ nodes = <<node>>
            /\ tosa_fb = LowerPlaceholder(EmptyFb, node).fb
    /\ pc = "helper"
    /\ error = "None"
    /\ fs = [tmpdir |-> "none", out_tosa |-> FALSE, npz |-> FALSE,
             dbg_dir |-> FALSE, dbg_writes |-> 0]
    /\ vela_runs = 0
    /\ vela_rc = -1
    /\ loaded = FALSE
    /\ archive = <<>>
    /\ ki = 0
    /\ block_name = <<>>
    /\ block_length = <<>>
    /\ block_data = <<>>
    /\ blocks = <<>>
    /\ binary = <<>>
    /\ result = <<>>
    /\ partitioner = IdlePartitioner
    /\ order_arg = <<>>

\* lines 226-247: one call transpose_helper(tosa_fb, input, new_order, out_dtype)
TransposeCall ==
    /\ pc = "helper"
    /\ \E order \in Orders :
         LET input == TosaArg(TensorArg(nodes[1]))
             b == transpose_helper(Ok(tosa_fb), input, order, input.dtype)
         IN /\ order_arg' = order
            /\ tosa_fb' = b.fb
            /\ error' = b.err
            /\ pc' = IF b.err # "None" THEN "raised" ELSE "helper_done"
    /\ UNCHANGED <<partitioner, path, debug_output, nodes, fs, vela_runs, vela_rc, loaded,
                   archive, blockLocals, binary, result>>

NextTranspose == TransposeCall

Spec == Init /\ [][Next]_vars
SpecPartition == Init /\ [][NextPartition]_vars
SpecLower == InitLower /\ [][NextLower]_vars
SpecBlock == InitVela /\ [][NextBlock]_vars
SpecVela == InitVela /\ [][NextVela]_vars
SpecTranspose == InitTranspose /\ [][NextTranspose]_vars

(***************************************************************************)
(* Properties of the packaged artifact.                                    *)
(***************************************************************************)
\* value of a little-endian unsigned byte string
RECURSIVE LEValue(_)
LEValue(bs) == IF bs = <<>> THEN 0 ELSE Head(bs) + 256 * LEValue(Tail(bs))

CeilTo16(n) == ((n + 15) \div 16) * 16

AllZero(bs) == \A i \in 1..Len(bs) : bs[i] = 0

\* the locals hold the block of archive entry ki
AtLoopBlock == pc = "vela_loop" /\ ki >= 1
LoopKey == Utf8(archive[ki].key)
LoopData == ToBytes(archive[ki].arr)

\* the locals hold the synthesized scratch block
AtScratchBlock == pc = "vela_return"
ScratchSize == Lookup(archive, ScratchShapeKey).arr.vals[1]

\* C1: the data region of every archive block is exactly ceil(L/16)*16 bytes:
\* the L data bytes followed by the fewest zero bytes reaching a 16-byte
\* boundary, none when L is already a multiple of 16.
C1_DataRegionIsCeil16 ==
    AtLoopBlock =>
        /\ Len(block_data) = CeilTo16(Len(LoopData))
        /\ SubSeq(block_data, 1, Len(LoopData)) = LoopData
        /\ AllZero(SubSeq(block_data, Len(LoopData) + 1, Len(block_data)))

\* C2: every archive block starts with a 16-byte name field holding at most
\* the first 15 bytes of the key followed by NUL padding, immediately
\* followed by a 16-byte little-endian length field whose value is the
\* unpadded byte count of the data.
C2_NameAndLengthFields ==
    AtLoopBlock =>
        LET n == IF Len(LoopKey) < 15 THEN Len(LoopKey) ELSE 15
            off == Len(blocks) - Len(block_data) - 32
        IN /\ Len(block_name) = 16
           /\ \A i \in 1..16 : block_name[i] = IF i <= n THEN LoopKey[i] ELSE 0
           /\ Len(block_length) = 16
           /\ LEValue(block_length) = Len(LoopData)
           /\ off >= 0
           /\ SubSeq(blocks, off + 1, off + 16) = block_name
           /\ SubSeq(blocks, off + 17, off + 32) = block_length
           /\ SubSeq(blocks, off + 33, Len(blocks)) = block_data

C2_Witness ==
    /\ AtLoopBlock
    /\ Len(LoopKey) > 15
    /\ Len(LoopData) = 20
    /\ LEValue(block_length) = 20
    /\ block_name[15] # 0

\* C3: for every declared scratch size S >= 0 the scratch_data block carries a
\* length field equal to S rounded up to the next multiple of 16 and a data
\* region of exactly that many zero bytes.
C3_ScratchBlockRoundedUp ==
    AtScratchBlock =>
        /\ block_name = ScratchDataKey \o Zeros(4)
        /\ Len(block_length) = 16
        /\ LEValue(block_length) = CeilTo16(ScratchSize)
        /\ Len(block_data) = CeilTo16(ScratchSize)
        /\ AllZero(block_data)

C3_Witness ==
    /\ AtScratchBlock
    /\ ScratchSize = 10
    /\ LEValue(block_length) = 16
    /\ Len(block_data) = 16

C3_WitnessAligned ==
    /\ AtScratchBlock
    /\ ScratchSize = 16
    /\ Len(block_data) = 16

\* the block the packaging loop emits for one archive entry
EntryBlock(e) == BlockName(e.key) \o BlockLength(ToBytes(e.arr)) \o BlockData(ToBytes(e.arr))

\* C4: the returned artifact is the 16-byte header, one block per archive
\* entry in archive iteration order, the scratch block last, then the 16-byte
\* footer, with nothing before, after or in between.
C4_ArtifactLayout ==
    pc \in {"return", "returned"} =>
        binary = (HeaderText \o <<0>>)
                 \o Flatten([i \in 1..Len(archive) |-> EntryBlock(archive[i])])
                 \o (ScratchDataKey \o Zeros(4))
                 \o ToBytesLE(CeilTo16(ScratchSize), 16)
                 \o Zeros(CeilTo16(ScratchSize))
                 \o (FooterText \o <<0>>)

C4_Witness ==
    /\ pc = "returned"
    /\ Len(archive) >= 3
    /\ archive[1].key # ScratchShapeKey
    /\ Len(result) > 32

(***************************************************************************)
(* Properties of preprocess and of the lowering engine.                    *)
(***************************************************************************)
Exited == pc \in {"returned", "raised"}

\* C5: when the external compiler exits with a non-zero status, preprocess
\* ends with the compiler's error: the compiler ran exactly once, the archive
\* was never read, and no artifact or PreprocessResult was produced.
C5_CompilerFailureAborts ==
    (vela_runs > 0 /\ vela_rc # 0) =>
        /\ pc = "raised"
        /\ error = "CalledProcessError"
        /\ vela_runs = 1
        /\ ~loaded
        /\ ki = 0
        /\ blocks = <<>>
        /\ binary = <<>>
        /\ result = <<>>

C5_Witness ==
    /\ vela_runs = 1
    /\ vela_rc = 1
    /\ pc = "raised"
    /\ error = "CalledProcessError"
    /\ Len(tosa_fb.operators) > 0

\* C6: the temporary directory exists whenever the serialized module is
\* staged and was created before the compiler is invoked, and it no longer
\* exists once preprocess has exited, on every exit path.
C6_TempDirScoped ==
    /\ fs.out_tosa => fs.tmpdir = "exists"
    /\ fs.npz => fs.tmpdir = "exists"
    /\ pc \in {"vela_run", "vela_load", "vela_loop", "vela_return"} =>
           fs.tmpdir = "exists" /\ fs.out_tosa
    /\ vela_runs > 0 => fs.tmpdir # "none"
    /\ Exited => fs.tmpdir # "exists"
    /\ (Exited /\ vela_runs = 0) => fs.tmpdir = "none"

\* exit after a failure while re-encoding the archive
C6_Witness ==
    /\ pc = "raised"
    /\ error = "KeyError"
    /\ loaded
    /\ fs.tmpdir = "removed"

C6_WitnessSuccess == pc = "returned" /\ fs.tmpdir = "removed" /\ Len(result) > 32
C6_WitnessCompilerFailure == pc = "raised" /\ error = "CalledProcessError" /\ fs.tmpdir = "removed"
C6_WitnessReadFailure == pc = "raised" /\ error = "FileNotFoundError" /\ fs.tmpdir = "removed"
C6_WitnessLoweringFault == pc = "raised" /\ error = "AssertionError" /\ fs.tmpdir = "none"

LastNode == nodes[Len(nodes)]
LastIsCall == nodes # <<>> /\ LastNode.op = "call_function"

\* C8: the classifier accepts a node iff it is a call_function on one of the
\* ten fixed targets; lowering a call on an accepted target never ends in the
\* "Unknown operator" failure, and a call on any other target makes lowering
\* fail.
C8_ClassifierMatchesEngine ==
    nodes # <<>> =>
        /\ is_node_supported(LastNode) <=>
              /\ LastNode.op = "call_function"
              /\ LastNode.target \in
                    { "aten.add.Tensor", "aten.addmm.default", "aten.permute_copy.default",
                      "aten.hardtanh.default", "aten.convolution.default", "aten.div.Tensor",
                      "aten._native_batch_norm_legit_no_training.default",
                      "aten.avg_pool2d.default", "aten._softmax.default", "operator.getitem" }
        /\ is_node_supported(LastNode) => error # "RuntimeError: Unknown operator"
        /\ (LastIsCall /\ ~is_node_supported(LastNode)) =>
              pc = "raised" /\ error = "RuntimeError: Unknown operator"

\* a getitem call and an add call have both been lowered
C8_Witness ==
    /\ pc = "lower"
    /\ LastIsCall
    /\ LastNode.target = "operator.getitem"
    /\ \E k \in 1..Len(tosa_fb.operators) : tosa_fb.operators[k].op = "IDENTITY"
    /\ \E k \in 1..Len(tosa_fb.operators) : tosa_fb.operators[k].op = "ADD"

C8_WitnessUnknown ==
    /\ pc = "raised"
    /\ LastIsCall
    /\ LastNode.target = "aten.sub.Tensor"

DeclaredBy(fb, n) == { fb.tensors[i].name : i \in 1..n }

\* C9: every tensor name an appended instruction reads or writes, and every
\* entry of the module's input and output lists, was declared in the module
\* before that instruction or entry was appended.
C9_NoForwardReference ==
    /\ \A k \in 1..Len(tosa_fb.operators) :
          LET o == tosa_fb.operators[k]
          IN /\ o.declared <= Len(tosa_fb.tensors)
             /\ \A i \in 1..Len(o.inputs) : o.inputs[i] \in DeclaredBy(tosa_fb, o.declared)
             /\ \A i \in 1..Len(o.outputs) : o.outputs[i] \in DeclaredBy(tosa_fb, o.declared)
    /\ \A k \in 1..Len(tosa_fb.inputs) :
          tosa_fb.inputs[k].name \in DeclaredBy(tosa_fb, tosa_fb.inputs[k].declared)
    /\ \A k \in 1..Len(tosa_fb.outputs) :
          tosa_fb.outputs[k].name \in DeclaredBy(tosa_fb, tosa_fb.outputs[k].declared)

\* a graph of an input, a division and a softmax has been lowered to its output
C9_Witness ==
    /\ pc = "dump"
    /\ Len(tosa_fb.inputs) = 1
    /\ Len(tosa_fb.outputs) = 1
    /\ \E k \in 1..Len(tosa_fb.operators) : tosa_fb.operators[k].op = "REDUCE_MAX"
    /\ \E k \in 1..Len(tosa_fb.operators) : tosa_fb.operators[k].op = "RECIPROCAL"
    /\ \E k \in 1..Len(tosa_fb.operators) :
          tosa_fb.operators[k].op = "MUL" /\ tosa_fb.operators[k].inputs[1] = NodeName(1)

\* a tensor operand of node n whose element type is not n's
Mismatched(n) ==
    \E i \in 1..Len(n.args) : n.args[i].kind = "node" /\ n.args[i].dtype # n.dtype

\* C10: when the element type of a tensor operand differs from the element
\* type of the node's declared output, lowering the node fails before any
\* instruction for it is appended.
C10_MismatchIsFatal ==
    [][ (pc = "lower" /\ nodes' # nodes /\ is_node_supported(nodes'[Len(nodes')])
            /\ Mismatched(nodes'[Len(nodes')]))
        => (pc' = "raised" /\ tosa_fb'.operators = tosa_fb.operators) ]_vars

(***************************************************************************)
(* Properties of the partitioner.                                          *)
(***************************************************************************)
PartitionsOf(i) ==
    { k \in 1..Len(partitioner.partition_list) : i \in partitioner.partition_list[k].nodes }

\* C7: after partition, every accepted node is a member of exactly one
\* proposed partition and carries the tag of that partition's id, every
\* rejected node carries no tag, and partition_tags has exactly one entry per
\* emitted partition.
C7_TagsMatchPartitions ==
    partitioner.pc = "done" =>
        /\ \A i \in 1..Len(partitioner.graph) :
              IF partitioner.graph[i].op = "call_function"
                 /\ partitioner.graph[i].target # "aten.sub.Tensor"
              THEN /\ Cardinality(PartitionsOf(i)) = 1
                   /\ \A k \in PartitionsOf(i) :
                         partitioner.delegation_tag[i] =
                             [pre |-> "tag", id |-> partitioner.partition_list[k].id]
              ELSE partitioner.delegation_tag[i] = NoTag
        /\ \A i, j \in 1..Len(partitioner.graph) :
              (partitioner.delegation_tag[i] # NoTag /\ partitioner.delegation_tag[j] # NoTag) =>
                 (partitioner.delegation_tag[i] = partitioner.delegation_tag[j]
                    <=> PartitionsOf(i) = PartitionsOf(j))
        /\ Cardinality(partitioner.partition_tags) = Len(partitioner.partition_list)
        /\ partitioner.partition_tags =
              { partitioner.delegation_tag[i] : i \in 1..Len(partitioner.graph) } \ {NoTag}

\* two partitions, one of them with two members, beside a rejected call
C7_Witness ==
    /\ partitioner.pc = "done"
    /\ Len(partitioner.partition_list) = 2
    /\ Cardinality(partitioner.partition_tags) = 2
    /\ \E k \in 1..2 : Cardinality(partitioner.partition_list[k].nodes) = 2
    /\ \E i \in 1..Len(partitioner.graph) : partitioner.graph[i].target = "aten.sub.Tensor"


(***************************************************************************)
(* Properties of the lowering helpers.                                     *)
(***************************************************************************)
HelperInput == nodes[1]
TruePermutation(order, rank) ==
    /\ Len(order) = rank
    /\ { order[k] : k \in 1..Len(order) } = 0..(rank - 1)

\* C11: a call of transpose_helper whose axis list has a length other than the
\* input rank, repeats an axis, or names an axis outside 0..rank-1 (negative
\* ones included) fails and leaves the module as it was: no tensor declared,
\* no TRANSPOSE appended.
C11_MalformedPermutationFails ==
    (pc \in {"helper_done", "raised"}
       /\ ~TruePermutation(order_arg, Len(HelperInput.shape))) =>
        /\ pc = "raised"
        /\ Len(tosa_fb.tensors) = 1
        /\ tosa_fb.operators = <<>>


(***************************************************************************)
(* Properties of the softmax rule.                                         *)
(***************************************************************************)
\* the step lowers a softmax call and lowering goes on
LowersSoftmax ==
    /\ pc = "lower"
    /\ nodes' # nodes
    /\ nodes'[Len(nodes')].op = "call_function"
    /\ nodes'[Len(nodes')].target = "aten._softmax.default"
    /\ pc' = "lower"

\* the instructions the step appends to the module
Appended == SubSeq(tosa_fb'.operators, Len(tosa_fb.operators) + 1, Len(tosa_fb'.operators))

\* C12 as stated: lowering one softmax node appends exactly five instructions.
C12_SoftmaxAppendsFive ==
    [][ LowersSoftmax => Len(tosa_fb'.operators) = Len(tosa_fb.operators) + 5 ]_vars

\* C12: lowering one softmax node appends exactly six instructions to the
\* module (REDUCE_MAX, SUB, EXP, REDUCE_SUM, RECIPROCAL, MUL) and leaves the
\* instructions already in the module as they were.
C12_SoftmaxAppendsSix ==
    [][ LowersSoftmax =>
          /\ Len(tosa_fb'.operators) = Len(tosa_fb.operators) + 6
          /\ SubSeq(tosa_fb'.operators, 1, Len(tosa_fb.operators)) = tosa_fb.operators
          /\ [k \in 1..Len(Appended) |-> Appended[k].op] =
                <<"REDUCE_MAX", "SUB", "EXP", "REDUCE_SUM", "RECIPROCAL", "MUL">> ]_vars

\* a softmax of an input placeholder has been lowered
C12_Witness ==
    /\ pc = "lower"
    /\ Len(nodes) = 2
    /\ nodes[1].pkind = "input"
    /\ LastIsCall
    /\ LastNode.target = "aten._softmax.default"
    /\ Len(tosa_fb.operators) = 6

\* C13: the instructions a softmax lowering appends are chained in this order:
\* REDUCE_MAX of the input along the axis, SUB(input, max), EXP of the SUB
\* result alone, REDUCE_SUM of the EXP result along the same axis, RECIPROCAL
\* of the sum, MUL(exp, reciprocal) writing the node's tensor.
C13_SoftmaxDataFlow ==
    [][ LowersSoftmax =>
          LET node == nodes'[Len(nodes')]
              x == node.args[1].name
              axis == [kind |-> "Axis", axis |-> node.args[2].number]
              a == Appended
          IN /\ Len(a) >= 6
             /\ a[1].op = "REDUCE_MAX" /\ a[1].inputs = <<x>> /\ a[1].attr = axis
             /\ a[2].op = "SUB" /\ a[2].inputs = <<x, a[1].outputs[1]>>
             /\ a[3].op = "EXP" /\ a[3].inputs = <<a[2].outputs[1]>>
             /\ a[3].inputs[1] # x
             /\ a[4].op = "REDUCE_SUM" /\ a[4].inputs = <<a[3].outputs[1]>>
             /\ a[4].attr = axis
             /\ a[5].op = "RECIPROCAL" /\ a[5].inputs = <<a[4].outputs[1]>>
             /\ a[6].op = "MUL" /\ a[6].inputs = <<a[3].outputs[1], a[5].outputs[1]>>
             /\ a[6].outputs = <<node.name>>
             /\ \A k \in 1..5 : Len(a[k].outputs) = 1 /\ a[k].outputs[1] # x
             /\ \A j, k \in 1..6 : a[j].outputs = a[k].outputs => j = k
             /\ \A k \in 1..Len(a) : a[k].op = "EXP" => k = 3 ]_vars

\* a softmax along the last axis, taken of the result of an earlier call, has
\* been lowered after other instructions
C13_Witness ==
    /\ pc = "lower"
    /\ Len(nodes) = 3
    /\ nodes[2].op = "call_function"
    /\ LastIsCall
    /\ LastNode.target = "aten._softmax.default"
    /\ LastNode.args[2].number = -1
    /\ Len(tosa_fb.operators) > 6
    /\ tosa_fb.operators[Len(tosa_fb.operators) - 3].op = "EXP"
    /\ tosa_fb.operators[Len(tosa_fb.operators)].outputs = <<LastNode.name>>


(***************************************************************************)
(* Properties of the layout conversions.                                   *)
(***************************************************************************)
\* the step lowers a convolution or average-pooling call and lowering goes on
LowersLayoutOp ==
    /\ pc = "lower"
    /\ nodes' # nodes
    /\ nodes'[Len(nodes')].op = "call_function"
    /\ nodes'[Len(nodes')].target \in {"aten.convolution.default", "aten.avg_pool2d.default"}
    /\ pc' = "lower"

\* a TRANSPOSE with axis order perm puts input axis perm[k] at position k
Transposed(axes, perm) == [k \in 1..Len(perm) |-> PyIndex(axes, perm[k])]

ChannelFirst == <<"N", "C", "H", "W">>
ChannelLast == <<"N", "H", "W", "C">>

\* C14: a convolution (standard or depthwise) or average-pooling lowering
\* starts with a TRANSPOSE of the node's input to channel-last, ends with a
\* TRANSPOSE writing the node's tensor, the operation in between reads the
\* first and feeds the last, and the two axis orders applied in turn to
\* (N, C, H, W) give (N, C, H, W) back.
C14_LayoutRoundTrip ==
    [][ LowersLayoutOp =>
          LET node == nodes'[Len(nodes')]
              a == Appended
              pre == a[1]
              post == a[Len(a)]
              core == a[Len(a) - 1]
          IN /\ Len(a) >= 3
             /\ pre.op = "TRANSPOSE" /\ pre.inputs = <<node.args[1].name>>
             /\ post.op = "TRANSPOSE" /\ post.outputs = <<node.name>>
             /\ core.op \in {"CONV2D", "DEPTHWISE_CONV2D", "AVG_POOL2D"}
             /\ core.op = "AVG_POOL2D" <=> node.target = "aten.avg_pool2d.default"
             /\ core.op = "DEPTHWISE_CONV2D" <=>
                   (node.target = "aten.convolution.default" /\ node.args[9].number > 1)
             /\ core.inputs[1] = pre.outputs[1]
             /\ core.outputs = post.inputs
             /\ Transposed(ChannelFirst, pre.attr.perm) = ChannelLast
             /\ Transposed(Transposed(ChannelFirst, pre.attr.perm), post.attr.perm)
                   = ChannelFirst ]_vars

\* a depthwise convolution and then an average pooling have been lowered
C14_Witness ==
    /\ pc = "lower"
    /\ Len(nodes) = 3
    /\ nodes[2].op = "call_function"
    /\ nodes[2].target = "aten.convolution.default"
    /\ nodes[2].args[9].number = 2
    /\ LastNode.target = "aten.avg_pool2d.default"
    /\ \E k \in 1..Len(tosa_fb.operators) : tosa_fb.operators[k].op = "DEPTHWISE_CONV2D"
    /\ tosa_fb.operators[Len(tosa_fb.operators) - 1].op = "AVG_POOL2D"
    /\ tosa_fb.operators[Len(tosa_fb.operators)].outputs = <<LastNode.name>>

C14_WitnessStandard ==
    /\ pc = "lower"
    /\ LastIsCall
    /\ LastNode.target = "aten.convolution.default"
    /\ tosa_fb.operators[Len(tosa_fb.operators) - 1].op = "CONV2D"


(***************************************************************************)
(* Properties of the failure paths and of the debug dump.                  *)
(***************************************************************************)
\* node n breaks a lowering invariant: an operand of another element type, a
\* batch-norm momentum other than 0.1, or a layout permutation of four axes
\* for an operand that does not have four
InvariantViolation(n) ==
    \/ Mismatched(n)
    \/ /\ n.target = "aten._native_batch_norm_legit_no_training.default"
       /\ n.args[6].number # 1
    \/ /\ n.target \in {"aten.convolution.default", "aten.avg_pool2d.default"}
       /\ Len(n.args[1].shape) # 4
    \/ /\ n.target = "aten.convolution.default"
       /\ Len(n.args[2].shape) # 4

\* C15: once a supported call that breaks a lowering invariant has been met,
\* preprocess has aborted, the module built so far has been dumped to the
\* debug directory (created for it), and the external compiler has not run.
C15_ViolationAbortsWithDump ==
    (LastIsCall /\ is_node_supported(LastNode) /\ InvariantViolation(LastNode)) =>
        /\ pc = "raised"
        /\ fs.dbg_dir
        /\ fs.dbg_writes >= 1
        /\ vela_runs = 0

\* C16: once a node that is neither a call, a placeholder nor an output has
\* been met, with or without a debug directory configured, the module built
\* so far has been dumped, preprocess has aborted with the engine's internal
\* error, the node is the last one visited, the external compiler has not run
\* and nothing is returned.
C16_UnknownKindDumpsAndAborts ==
    \A k \in 1..Len(nodes) :
        nodes[k].op \notin {"call_function", "placeholder", "output"} =>
            /\ k = Len(nodes)
            /\ pc = "raised"
            /\ error = "RuntimeError: TOSA Internal Error"
            /\ fs.dbg_writes >= 1
            /\ vela_runs = 0
            /\ result = <<>>

InVela == pc \in {"vela", "vela_write", "vela_run", "vela_load", "vela_loop", "vela_return"}

\* C17: without the debug_tosa_path key no debug directory exists and no dump
\* has been written, whatever path preprocess took; with the key, no dump has
\* been written while lowering is under way, and from the moment vela_compile
\* is entered (so before the compiler runs) to the end of preprocess the dump
\* has been written exactly once.
C17_DumpOnlyWhenConfigured ==
    /\ ~debug_output => (~fs.dbg_dir /\ fs.dbg_writes = 0)
    /\ (debug_output /\ pc \in {"lower", "dump"}) => fs.dbg_writes = 0
    /\ (debug_output /\ (InVela \/ pc \in {"return", "returned"} \/ fs.tmpdir # "none")) =>
           (fs.dbg_dir /\ fs.dbg_writes = 1)
    /\ vela_runs > 0 => fs.dbg_writes = (IF debug_output THEN 1 ELSE 0)
    /\ fs.dbg_writes <= 1

\* with the key: a graph was lowered, dumped once, compiled and returned
C17_Witness ==
    /\ debug_output
    /\ pc = "returned"
    /\ fs.dbg_dir
    /\ fs.dbg_writes = 1
    /\ vela_runs = 1
    /\ Len(result) > 32

C17_WitnessNoKeySuccess == ~debug_output /\ pc = "returned" /\ Len(result) > 32
C17_WitnessNoKeyUnknownKind ==
    /\ ~debug_output
    /\ pc = "raised"
    /\ nodes # <<>>
    /\ LastNode.op = "get_attr"
C17_WitnessNoKeyLoweringFailure == ~debug_output /\ pc = "raised" /\ error = "AssertionError"
C17_WitnessNoKeyCompilerFailure == ~debug_output /\ pc = "raised" /\ error = "CalledProcessError"

====
